---- MODULE Spec2Model ----
(***************************************************************************)
(* Little Yellow Book (xiaowongshu): the App component's session state,    *)
(* its handlers, its two storage effects and the asynchronous calls to the *)
(* AI collaborator, as a state machine.                                    *)
(*                                                                         *)
(* React's setState(prev => ...) updaters are applied in call order; the   *)
(* variable `state` is the result of all updaters issued so far (what the  *)
(* next updater receives as `prev`).  Handlers read the `state` and        *)
(* `query` constants of the render that created them: the variable         *)
(* `rendered` is that snapshot.  A user event (click, submit, change) is a *)
(* discrete event: React commits its updates before the next event, so a   *)
(* user action ends with rendered = state.  Updates issued by the          *)
(* continuation of an awaited call are committed by a later Render step.   *)
(***************************************************************************)
EXTENDS Integers, Sequences, FiniteSets

(* ---------------------------- bounds ----------------------------------- *)
\* user operations that issue a request or log in, over the whole run
MaxTriggers == 2
\* clock ticks of Date.now() over the whole run
MaxTicks == 1
\* sessions (page loads) over the whole run
MaxSessions == 2

\* Date.now() at the start of the run: 9 -> 10 changes the digit count
ClockStart == 9

Words == {"neko", "inu"}
DefsCN == {"cat", "dog"}

Null == <<>>
Some(x) == <<x>>

(* ---------------------------- types.ts --------------------------------- *)
\* what fetchDictionaryDefinition can resolve with: the AI chooses every
\* field, the word included (it need not be the search term)
DictionaryResult ==
  [word : Words, reading : {"yomi"}, romaji : {"romaji"},
   definition_cn : DefsCN, definition_jp : {"teigi"},
   example_jp : {"rei"}, example_cn : {"li"}]

SEARCH == "SEARCH"
WORDBOOK == "WORDBOOK"

(* ------------------- numbers <-> decimal text -------------------------- *)
RECURSIVE toString(_)
\* Number.prototype.toString / JSON number text: the decimal digits
toString(n) ==
  IF n < 10 THEN <<n>> ELSE Append(toString(n \div 10), n % 10)

RECURSIVE ParseNumber(_)
ParseNumber(ds) ==
  IF Len(ds) = 0 THEN 0
  ELSE 10 * ParseNumber(SubSeq(ds, 1, Len(ds) - 1)) + ds[Len(ds)]

(* ------------------------ JSON and localStorage ------------------------ *)
\* a JavaScript value held in state.history: an array of items, or one of
\* the non-array values JSON.parse can produce
Arr(s) == [t |-> "array", v |-> s]
JNull == [t |-> "null", v |-> <<>>]
JObject == [t |-> "object", v |-> <<>>]
JNumber == [t |-> "number", v |-> <<>>]

IsArray(h) == h.t = "array"

\* the text form of one WordHistoryItem: strings stay, the number timestamp
\* becomes its decimal text
ItemText(item) == [item EXCEPT !.timestamp = toString(item.timestamp)]
ItemOfText(txt) == [txt EXCEPT !.timestamp = ParseNumber(txt.timestamp)]

\* JSON.stringify(value): a string of the store
JSONstringify(h) ==
  [json |-> TRUE,
   doc |-> IF IsArray(h) THEN Arr([i \in 1..Len(h.v) |-> ItemText(h.v[i])]) ELSE h]

\* a stored string that is not JSON
Garbage == [json |-> FALSE, doc |-> JNull]

\* JSON.parse(text): ok = FALSE stands for the SyntaxError it throws
JSONparse(text) ==
  IF ~text.json THEN [ok |-> FALSE, value |-> JNull]
  ELSE [ok |-> TRUE,
        value |-> IF IsArray(text.doc)
                  THEN Arr([i \in 1..Len(text.doc.v) |->
                             ItemOfText(text.doc.v[i])])
                  ELSE text.doc]


(* ----------------------------- state ----------------------------------- *)
VARIABLES
  state,      \* DictionaryState after every updater issued so far
  query,      \* the query string after every setQuery issued so far
  rendered,   \* [state, query] of the last render: what handlers close over
  view,       \* ViewMode
  user,       \* UserProfile | null
  store,      \* localStorage['lyb_history']
  userStore,  \* localStorage['lyb_user']
  pending,    \* asynchronous calls in flight
  nextId,     \* issue number of the next asynchronous call
  now,        \* Date.now()
  phase,      \* "mounting": first render done, effects not yet run
  crashed,    \* a render threw: the component tree is unmounted
  triggers,   \* user operations counted against MaxTriggers so far
  sessions,   \* page loads so far
  closedWith, \* the history the previous session was closed with, if it
              \* had been committed and saved; Null otherwise
  last,       \* the operation that took the last step
  audio,      \* the audio decoder on its own: its input bytes and outcome
  lookup      \* history variable: the issue numbers of the latest text
              \* lookup and of the lookup whose response is in state.data

vars == <<state, query, rendered, view, user, store, userStore, pending,
          nextId, now, phase, crashed, triggers, sessions, closedWith, last,
          audio, lookup>>

InitialState ==
  [data |-> Null, imageUrl |-> Null,
   isLoadingText |-> FALSE, isLoadingImage |-> FALSE,
   isLoadingAudioWord |-> FALSE, isLoadingAudioSentence |-> FALSE,
   isAnalyzingImage |-> FALSE, isGeneratingStory |-> FALSE,
   error |-> Null, history |-> Arr(<<>>), dailyStory |-> Null]

MockUser ==
  [t |-> "object",
   v |-> [name |-> "Explorer", email |-> "explorer@example.com"]]

Req(n, kind, term) == [n |-> n, kind |-> kind, term |-> term]

Of(kind) == {r \in pending : r.kind = kind}

Live == phase = "running" /\ ~crashed

\* every update issued so far is rendered and its effects have run
Settled == Live /\ rendered = [state |-> state, query |-> query]

(* ------------------------------ render --------------------------------- *)
\* rendering reads state.history.length in the header (a TypeError on
\* null) and calls state.history.map in the wordbook view (a TypeError on
\* any non-array whose length is not 0)
RenderThrows(s, v) ==
  \/ s.history.t = "null"
  \/ v = WORDBOOK /\ ~IsArray(s.history)

\* the save effect writing the history of the previous render
SaveEffect_stale(h) == Some(JSONstringify(rendered.state.history))

\* the save effect: localStorage.setItem('lyb_history', JSON.stringify(h))
SaveEffect(h) == Some(JSONstringify(h))

\* a render commits state s and query q in view v, then runs the save
\* effect when state.history changed; a render that throws commits nothing
Commit(s, q, v) ==
  /\ crashed' = RenderThrows(s, v)
  /\ rendered' = IF RenderThrows(s, v) THEN rendered
                 ELSE [state |-> s, query |-> q]
  /\ store' = IF ~RenderThrows(s, v) /\ s.history # rendered.state.history
              THEN SaveEffect(s.history)
              ELSE store

\* the two effects of the first render, run in one pass: the load effect
\* reads both keys and queues the parsed values, then the save effect
\* writes the history of the first render (the empty array)
MountEffects ==
  /\ phase = "mounting"
  /\ LET h == IF store = Null THEN [ok |-> FALSE, value |-> JNull]
              ELSE JSONparse(store[1])
         u == IF userStore = Null THEN [ok |-> FALSE, value |-> JNull]
              ELSE JSONparse(userStore[1])
     IN /\ state' = IF h.ok THEN [state EXCEPT !.history = h.value] ELSE state
        /\ user' = IF u.ok THEN Some(u.value) ELSE user
  /\ store' = SaveEffect(rendered.state.history)
  /\ phase' = "running"
  /\ last' = "mount"
  /\ UNCHANGED <<query, rendered, view, userStore, pending, nextId, now,
                 crashed, triggers, sessions, closedWith, audio, lookup>>

\* React commits the updates queued by asynchronous continuations
Render ==
  /\ Live
  /\ state # rendered.state \/ query # rendered.query
  /\ Commit(state, query, view)
  /\ last' = "render"
  /\ UNCHANGED <<state, query, view, user, userStore, pending, nextId, now,
                 phase, triggers, sessions, closedWith, audio, lookup>>

(* ---------------------------- history ---------------------------------- *)
HasWord(items, w) == \E i \in 1..Len(items) : items[i].word = w

NewItem(result, t) ==
  [id |-> toString(t), word |-> result.word, reading |-> result.reading,
   definition |-> result.definition_cn,
   definition_jp |-> result.definition_jp,
   example_jp |-> result.example_jp, example_cn |-> result.example_cn,
   timestamp |-> t]

\* what localStorage['lyb_history'] can hold when the first session starts:
\* nothing, a string that is not JSON, JSON that is no array, or the
\* history an earlier session saved
SavedResult ==
  [word |-> "neko", reading |-> "yomi", romaji |-> "romaji",
   definition_cn |-> "cat", definition_jp |-> "teigi",
   example_jp |-> "rei", example_cn |-> "li"]

InitialStores ==
  {Null, Some(Garbage), Some(JSONstringify(JNull)),
   Some(JSONstringify(JObject)), Some(JSONstringify(JNumber)),
   Some(JSONstringify(Arr(<<NewItem(SavedResult, ClockStart - 1)>>)))}

\* addToHistory without its duplicate check
addToHistory_noDuplicateCheck(result, prev, t) ==
  [prev EXCEPT !.history = Arr(<<NewItem(result, t)>> \o prev.history.v)]

\* addToHistory pushing the new item at the end
addToHistory_appendsLast(result, prev, t) ==
  IF HasWord(prev.history.v, result.word) THEN prev
  ELSE [prev EXCEPT !.history = Arr(Append(prev.history.v, NewItem(result, t)))]

\* the updater of addToHistory on an array history, at clock value t
addToHistory(result, prev, t) ==
  IF HasWord(prev.history.v, result.word) THEN prev
  ELSE [prev EXCEPT !.history = Arr(<<NewItem(result, t)>> \o prev.history.v)]

(* ----------------------------- lookup ---------------------------------- *)
\* what the user types into the search box
Typed == {"neko"}

\* String.prototype.trim on the modelled strings: none of them has blanks
\* around a word, a blank string trims to the empty one
Trim(s) == IF s = " " THEN "" ELSE s

\* overrideQuery || query
SearchTerm(overrideQuery, q) == IF overrideQuery # "" THEN overrideQuery ELSE q

\* the start of a lookup also resetting the history
SearchStart_resetsHistory(prev) ==
  [prev EXCEPT !.isLoadingText = TRUE, !.isLoadingImage = TRUE,
               !.error = Null, !.data = Null, !.imageUrl = Null,
               !.history = Arr(<<>>)]

\* the updater handleSearch issues before its first await
SearchStart(prev) ==
  [prev EXCEPT !.isLoadingText = TRUE, !.isLoadingImage = TRUE,
               !.error = Null, !.data = Null, !.imageUrl = Null]

\* no lookup issued yet, no response displayed
NoLookup == [latest |-> 0, shown |-> 0]

\* lookup number n has just been issued and has emptied state.data
Issued(n) == [latest |-> n, shown |-> 0]

\* handleSearch up to its first await, in a user event
handleSearch(overrideQuery, q) ==
  LET term == SearchTerm(overrideQuery, rendered.query) IN
  IF Trim(term) = ""
  THEN UNCHANGED <<state, view, pending, nextId, triggers, rendered, store,
                   crashed, lookup>>
  ELSE /\ view' = SEARCH
       /\ state' = SearchStart(state)
       /\ pending' = pending \cup {Req(nextId, "text", term)}
       /\ lookup' = Issued(nextId)
       /\ nextId' = nextId + 1
       /\ triggers' = triggers + 1
       /\ Commit(state', q, SEARCH)

\* the search form: its submit button is disabled while a lookup or an
\* image analysis is rendered as running
SubmitSearch ==
  /\ Live
  /\ view = SEARCH
  /\ ~rendered.state.isLoadingText /\ ~rendered.state.isAnalyzingImage
  /\ triggers < MaxTriggers
  /\ handleSearch("", query)
  /\ last' = "submit"
  /\ UNCHANGED <<query, user, userStore, now, phase, sessions, closedWith,
                 audio>>

\* the wordbook's View Details button of item i
ViewDetails(i) ==
  /\ Live
  /\ view = WORDBOOK
  /\ triggers < MaxTriggers
  /\ query' = rendered.state.history.v[i].word
  /\ handleSearch(rendered.state.history.v[i].word, query')
  /\ last' = "viewDetails"
  /\ UNCHANGED <<user, userStore, now, phase, sessions, closedWith, audio>>

ImageUrl(word) == [mime |-> "image/jpeg", of |-> word]

\* the success updater also clearing the error
TextSuccess_clearsError(prev, definition) ==
  [prev EXCEPT !.data = Some(definition), !.isLoadingText = FALSE,
               !.error = Null]

\* the updater handleSearch issues when the definition has arrived
TextSuccess(prev, definition) ==
  [prev EXCEPT !.data = Some(definition), !.isLoadingText = FALSE]

\* fetchDictionaryDefinition resolves with `definition`
TextResolved(r, definition) ==
  /\ ~crashed
  /\ query' = definition.word
  /\ LET s == TextSuccess(state, definition)
     IN IF IsArray(state.history)
        THEN state' = addToHistory(definition, s, now) /\ crashed' = FALSE
        ELSE state' = s /\ crashed' = TRUE
  /\ pending' = (pending \ {r}) \cup {Req(nextId, "image", definition.word)}
  /\ nextId' = nextId + 1
  /\ lookup' = [lookup EXCEPT !.shown = r.n]
  /\ last' = "textResolved"
  /\ UNCHANGED <<rendered, view, user, store, userStore, now, phase,
                 triggers, sessions, closedWith, audio>>

\* the catch block of handleSearch going on to generateImage
TextRejected_startsImage(r) ==
  /\ ~crashed
  /\ state' = [state EXCEPT
                 !.error = Some("Failed to find the word. Please try again."),
                 !.isLoadingText = FALSE, !.isLoadingImage = FALSE]
  /\ pending' = (pending \ {r}) \cup {Req(nextId, "image", r.term)}
  /\ nextId' = nextId + 1
  /\ last' = "textRejected"
  /\ UNCHANGED <<query, rendered, view, user, store, userStore, now,
                 phase, crashed, triggers, sessions, closedWith, audio,
                 lookup>>

\* the catch block of handleSearch resetting the text flag alone
TextRejected_onlyTextFlag(r) ==
  /\ ~crashed
  /\ state' = [state EXCEPT
                 !.error = Some("Failed to find the word. Please try again."),
                 !.isLoadingText = FALSE]
  /\ pending' = pending \ {r}
  /\ last' = "textRejected"
  /\ UNCHANGED <<query, rendered, view, user, store, userStore, nextId, now,
                 phase, crashed, triggers, sessions, closedWith, audio,
                 lookup>>

\* fetchDictionaryDefinition rejects, or its result cannot be used
TextRejected(r) ==
  /\ ~crashed
  /\ state' = [state EXCEPT
                 !.error = Some("Failed to find the word. Please try again."),
                 !.isLoadingText = FALSE, !.isLoadingImage = FALSE]
  /\ pending' = pending \ {r}
  /\ last' = "textRejected"
  /\ UNCHANGED <<query, rendered, view, user, store, userStore, nextId, now,
                 phase, crashed, triggers, sessions, closedWith, audio,
                 lookup>>

\* generateWordImage resolves
ImageResolved(r) ==
  /\ ~crashed
  /\ state' = [state EXCEPT !.imageUrl = Some(ImageUrl(r.term)),
                            !.isLoadingImage = FALSE]
  /\ pending' = pending \ {r}
  /\ last' = "imageResolved"
  /\ UNCHANGED <<query, rendered, view, user, store, userStore, nextId, now,
                 phase, crashed, triggers, sessions, closedWith, audio,
                 lookup>>

\* the catch block of generateImage reporting through the error banner
ImageRejected_setsError(r) ==
  /\ ~crashed
  /\ state' = [state EXCEPT !.isLoadingImage = FALSE,
                            !.error = Some("Failed to generate image.")]
  /\ pending' = pending \ {r}
  /\ last' = "imageRejected"
  /\ UNCHANGED <<query, rendered, view, user, store, userStore, nextId, now,
                 phase, crashed, triggers, sessions, closedWith, audio,
                 lookup>>

\* generateWordImage rejects
ImageRejected(r) ==
  /\ ~crashed
  /\ state' = [state EXCEPT !.isLoadingImage = FALSE]
  /\ pending' = pending \ {r}
  /\ last' = "imageRejected"
  /\ UNCHANGED <<query, rendered, view, user, store, userStore, nextId, now,
                 phase, crashed, triggers, sessions, closedWith, audio,
                 lookup>>

\* the Regenerate button of the result card, shown with an image present
\* and no image loading
handleRegenerateImage ==
  /\ Live
  /\ view = SEARCH
  /\ rendered.state.data # Null
  /\ rendered.state.imageUrl # Null /\ ~rendered.state.isLoadingImage
  /\ triggers < MaxTriggers
  /\ state' = [state EXCEPT !.isLoadingImage = TRUE, !.imageUrl = Null]
  /\ pending' = pending \cup {Req(nextId, "image", rendered.state.data[1].word)}
  /\ nextId' = nextId + 1
  /\ triggers' = triggers + 1
  /\ Commit(state', query, view)
  /\ last' = "regenerate"
  /\ UNCHANGED <<query, view, user, userStore, now, phase, sessions,
                 closedWith, audio, lookup>>

(* ------------------------------ audio ---------------------------------- *)
LoadingKey(type) ==
  IF type = "word" THEN "isLoadingAudioWord" ELSE "isLoadingAudioSentence"

\* handlePlayAudio without its check of the loading flag
handlePlayAudio_noGuard(type) ==
  /\ triggers < MaxTriggers
  /\ state' = [state EXCEPT ![LoadingKey(type)] = TRUE]
  /\ pending' = pending \cup {Req(nextId, "speech", type)}
  /\ nextId' = nextId + 1
  /\ triggers' = triggers + 1
  /\ Commit(state', query, view)

\* handlePlayAudio up to its first await; the text to speak does not feed
\* back into the state, the request carries the audio type
handlePlayAudio(type) ==
  IF rendered.state[LoadingKey(type)]
  THEN UNCHANGED <<state, pending, nextId, triggers, rendered, store, crashed>>
  ELSE /\ triggers < MaxTriggers
       /\ state' = [state EXCEPT ![LoadingKey(type)] = TRUE]
       /\ pending' = pending \cup {Req(nextId, "speech", type)}
       /\ nextId' = nextId + 1
       /\ triggers' = triggers + 1
       /\ Commit(state', query, view)

\* the result card's two audio buttons, each disabled while its flag is
\* rendered as set
PlayResultAudio(type) ==
  /\ Live
  /\ view = SEARCH
  /\ rendered.state.data # Null
  /\ ~rendered.state[LoadingKey(type)]
  /\ handlePlayAudio(type)
  /\ last' = "playResult"
  /\ UNCHANGED <<query, view, user, userStore, now, phase, sessions,
                 closedWith, audio, lookup>>

\* the wordbook's Play Audio button of an item: never disabled
PlayItemAudio(i) ==
  /\ Live
  /\ view = WORDBOOK
  /\ handlePlayAudio("word")
  /\ last' = IF rendered.state.isLoadingAudioWord
             THEN "playIgnored" ELSE "playItem"
  /\ UNCHANGED <<query, view, user, userStore, now, phase, sessions,
                 closedWith, audio, lookup>>

\* the story panel's Listen button: never disabled
PlayStoryAudio ==
  /\ Live
  /\ view = WORDBOOK
  /\ rendered.state.dailyStory # Null /\ ~rendered.state.isGeneratingStory
  /\ handlePlayAudio("sentence")
  /\ last' = IF rendered.state.isLoadingAudioSentence
             THEN "playIgnored" ELSE "playStory"
  /\ UNCHANGED <<query, view, user, userStore, now, phase, sessions,
                 closedWith, audio, lookup>>

\* the finally block of handlePlayAudio
AudioFinally(prev, type) == [prev EXCEPT ![LoadingKey(type)] = FALSE]

\* generateSpeech resolves; decodable = FALSE: decodeBase64 or the audio
\* context throws, else decodeAudioData is awaited
SpeechResolved(r, decodable) ==
  /\ ~crashed
  /\ IF decodable
     THEN /\ pending' = (pending \ {r}) \cup {Req(nextId, "decode", r.term)}
          /\ nextId' = nextId + 1
          /\ state' = state
     ELSE /\ pending' = pending \ {r}
          /\ nextId' = nextId
          /\ state' = AudioFinally(state, r.term)
  /\ last' = "speechResolved"
  /\ UNCHANGED <<query, rendered, view, user, store, userStore, now, phase,
                 crashed, triggers, sessions, closedWith, audio, lookup>>

\* generateSpeech rejects (no audio data returned, service error)
SpeechRejected(r) ==
  /\ ~crashed
  /\ state' = AudioFinally(state, r.term)
  /\ pending' = pending \ {r}
  /\ last' = "speechRejected"
  /\ UNCHANGED <<query, rendered, view, user, store, userStore, nextId, now,
                 phase, crashed, triggers, sessions, closedWith, audio,
                 lookup>>

\* decodeAudioData settles: playBuffer on success, then the finally block
DecodeSettled(r, ok) ==
  /\ ~crashed
  /\ state' = AudioFinally(state, r.term)
  /\ pending' = pending \ {r}
  /\ last' = IF ok THEN "played" ELSE "decodeRejected"
  /\ UNCHANGED <<query, rendered, view, user, store, userStore, nextId, now,
                 phase, crashed, triggers, sessions, closedWith, audio,
                 lookup>>

(* --------------------------- audio decoder ----------------------------- *)
\* the sample rate handlePlayAudio gives the audio context and the decoder
SampleRate == 24000

\* longest byte sequence handed to the decoder
MaxBytes == 4

\* byte values: low, sign bit set, all bits set
PCMByte == {0, 128, 255}

ByteSeqs == UNION {[1..n -> PCMByte] : n \in 0..MaxBytes}

\* one signed 16-bit little-endian sample; the buffer holds it divided by
\* 32768, kept here as the numerator
Int16LE(lo, hi) ==
  LET u == lo + 256 * hi IN IF u >= 32768 THEN u - 65536 ELSE u

PCMBuffer(data, frames) ==
  [sampleRate |-> SampleRate, numberOfChannels |-> 1,
   samples |-> [i \in 1..frames |-> Int16LE(data[2 * i - 1], data[2 * i])]]

\* a decoder dropping an incomplete last sample instead of failing
decodeAudioData_truncates(data) ==
  [ok |-> TRUE, buffer |-> PCMBuffer(data, Len(data) \div 2)]

\* decodeAudioData(bytes, ctx, 24000): the bytes as signed 16-bit
\* little-endian mono PCM; a format error on an incomplete sample
decodeAudioData(data) ==
  IF Len(data) % 2 # 0
  THEN [ok |-> FALSE, error |-> "format"]
  ELSE [ok |-> TRUE, buffer |-> PCMBuffer(data, Len(data) \div 2)]

\* no decoder run under way
NoAudio == [bytes |-> <<>>, out |-> Null]

sessionVars ==
  <<state, query, rendered, view, user, store, userStore, pending, nextId,
    now, phase, crashed, triggers, sessions, closedWith, last, lookup>>

\* the decoder applied to the bytes it was given
Decode ==
  /\ audio.out = Null
  /\ audio' = [audio EXCEPT !.out = Some(decodeAudioData(audio.bytes))]
  /\ UNCHANGED sessionVars

(* ------------------------------ story ---------------------------------- *)
\* the Create Story button, disabled while a story is rendered as being
\* generated or the rendered history is empty
handleGenerateStory ==
  /\ Live
  /\ view = WORDBOOK
  /\ ~(Len(rendered.state.history.v) = 0 \/ rendered.state.isGeneratingStory)
  /\ triggers < MaxTriggers
  /\ state' = [state EXCEPT !.isGeneratingStory = TRUE, !.dailyStory = Null]
  /\ pending' = pending \cup {Req(nextId, "story", "")}
  /\ nextId' = nextId + 1
  /\ triggers' = triggers + 1
  /\ Commit(state', query, view)
  /\ last' = "story"
  /\ UNCHANGED <<query, view, user, userStore, now, phase, sessions,
                 closedWith, audio, lookup>>

\* generateDailyStory: response.text || "Could not generate story."
generateDailyStory(text) ==
  IF text = "" THEN "Could not generate story." ELSE text

StoryResolved(r, text) ==
  /\ ~crashed
  /\ state' = [state EXCEPT !.dailyStory = Some(generateDailyStory(text)),
                            !.isGeneratingStory = FALSE]
  /\ pending' = pending \ {r}
  /\ last' = "storyResolved"
  /\ UNCHANGED <<query, rendered, view, user, store, userStore, nextId, now,
                 phase, crashed, triggers, sessions, closedWith, audio,
                 lookup>>

StoryRejected(r) ==
  /\ ~crashed
  /\ state' = [state EXCEPT !.error = Some("Failed to generate story."),
                            !.isGeneratingStory = FALSE]
  /\ pending' = pending \ {r}
  /\ last' = "storyRejected"
  /\ UNCHANGED <<query, rendered, view, user, store, userStore, nextId, now,
                 phase, crashed, triggers, sessions, closedWith, audio,
                 lookup>>

(* ------------------------------- OCR ----------------------------------- *)
\* the camera button with a file chosen; disabled while an analysis is
\* rendered as running
handleImageUpload ==
  /\ Live
  /\ view = SEARCH
  /\ ~rendered.state.isAnalyzingImage
  /\ triggers < MaxTriggers
  /\ state' = [state EXCEPT !.isAnalyzingImage = TRUE, !.error = Null]
  /\ pending' = pending \cup {Req(nextId, "read", "")}
  /\ nextId' = nextId + 1
  /\ triggers' = triggers + 1
  /\ Commit(state', query, view)
  /\ last' = "upload"
  /\ UNCHANGED <<query, view, user, userStore, now, phase, sessions,
                 closedWith, audio, lookup>>

\* reader.onload: the file is read, extractTextFromImage is awaited
ReadLoaded(r) ==
  /\ ~crashed
  /\ pending' = (pending \ {r}) \cup {Req(nextId, "extract", "")}
  /\ nextId' = nextId + 1
  /\ last' = "readLoaded"
  /\ UNCHANGED <<state, query, rendered, view, user, store, userStore, now,
                 phase, crashed, triggers, sessions, closedWith, audio,
                 lookup>>

\* the read fails: FileReader has no onerror handler, nothing runs
ReadFailed(r) ==
  /\ ~crashed
  /\ pending' = pending \ {r}
  /\ last' = "readFailed"
  /\ UNCHANGED <<state, query, rendered, view, user, store, userStore,
                 nextId, now, phase, crashed, triggers, sessions,
                 closedWith, audio, lookup>>

\* extractTextFromImage resolves with the trimmed text, possibly empty
ExtractResolved(r, extractedText) ==
  /\ ~crashed
  /\ IF extractedText # ""
     THEN /\ query' = extractedText
          /\ view' = SEARCH
          /\ state' = [SearchStart(state) EXCEPT !.isAnalyzingImage = FALSE]
          /\ pending' = (pending \ {r}) \cup
                          {Req(nextId, "text",
                               SearchTerm(extractedText, rendered.query))}
          /\ nextId' = nextId + 1
          /\ lookup' = Issued(nextId)
     ELSE /\ state' = [state EXCEPT
                         !.error = Some("Could not read text from image."),
                         !.isAnalyzingImage = FALSE]
          /\ pending' = pending \ {r}
          /\ UNCHANGED <<query, view, nextId, lookup>>
  /\ last' = "extractResolved"
  /\ UNCHANGED <<rendered, user, store, userStore, now, phase, crashed,
                 triggers, sessions, closedWith, audio>>

\* the inner catch block without the finally block after it
ExtractRejected_keepsFlag(r) ==
  /\ ~crashed
  /\ state' = [state EXCEPT !.error = Some("Could not read text from image.")]
  /\ pending' = pending \ {r}
  /\ last' = "extractRejected"
  /\ UNCHANGED <<query, rendered, view, user, store, userStore, nextId, now,
                 phase, crashed, triggers, sessions, closedWith, audio,
                 lookup>>

\* extractTextFromImage rejects
ExtractRejected(r) ==
  /\ ~crashed
  /\ state' = [state EXCEPT !.error = Some("Could not read text from image."),
                            !.isAnalyzingImage = FALSE]
  /\ pending' = pending \ {r}
  /\ last' = "extractRejected"
  /\ UNCHANGED <<query, rendered, view, user, store, userStore, nextId, now,
                 phase, crashed, triggers, sessions, closedWith, audio,
                 lookup>>

(* ------------------------- login, export ------------------------------- *)
handleLogin ==
  /\ Live
  /\ user = Null
  /\ triggers < MaxTriggers
  /\ triggers' = triggers + 1
  /\ user' = Some(MockUser)
  /\ userStore' = Some(JSONstringify(MockUser))
  /\ Commit(state, query, view)
  /\ last' = "login"
  /\ UNCHANGED <<state, query, view, pending, nextId, now, phase,
                 sessions, closedWith, audio, lookup>>

handleLogout ==
  /\ Live
  /\ user # Null
  /\ user' = Null
  /\ userStore' = Null
  /\ view' = SEARCH
  /\ Commit(state, query, SEARCH)
  /\ last' = "logout"
  /\ UNCHANGED <<state, query, pending, nextId, now, phase, triggers,
                 sessions, closedWith, audio, lookup>>

\* the Export CSV button, disabled while the rendered history is empty:
\* builds a file for download and changes nothing of the session
exportHistoryToCSV ==
  /\ Live
  /\ view = WORDBOOK
  /\ Len(rendered.state.history.v) # 0
  /\ last' = "export"
  /\ UNCHANGED <<state, query, rendered, view, user, store, userStore,
                 pending, nextId, now, phase, crashed, triggers, sessions,
                 closedWith, audio, lookup>>

(* --------------------------- environment ------------------------------- *)
SetQuery(q) ==
  /\ Live
  /\ view = SEARCH
  /\ q # rendered.query
  /\ query' = q
  /\ Commit(state, q, view)
  /\ last' = "setQuery"
  /\ UNCHANGED <<state, view, user, userStore, pending, nextId, now, phase,
                 triggers, sessions, closedWith, audio, lookup>>

SetView(v) ==
  /\ Live
  /\ v # view
  /\ view' = v
  /\ Commit(state, query, v)
  /\ last' = "setView"
  /\ UNCHANGED <<state, query, user, userStore, pending, nextId, now, phase,
                 triggers, sessions, closedWith, audio, lookup>>

Tick ==
  /\ now < ClockStart + MaxTicks
  /\ now' = now + 1
  /\ UNCHANGED <<state, query, rendered, view, user, store, userStore,
                 pending, nextId, phase, crashed, triggers, sessions,
                 closedWith, audio, lookup, last>>

\* the page is closed and loaded again: only localStorage survives
Reload ==
  /\ sessions < MaxSessions
  /\ sessions' = sessions + 1
  /\ state' = InitialState
  /\ query' = ""
  /\ rendered' = [state |-> InitialState, query |-> ""]
  /\ view' = SEARCH
  /\ user' = Null
  /\ pending' = {}
  /\ phase' = "mounting"
  /\ crashed' = FALSE
  /\ closedWith' = IF Settled /\ IsArray(state.history)
                   THEN Some(state.history) ELSE Null
  /\ last' = "reload"
  /\ lookup' = NoLookup
  /\ UNCHANGED <<store, userStore, nextId, now, triggers, audio>>

Init ==
  /\ state = InitialState
  /\ query = ""
  /\ rendered = [state |-> InitialState, query |-> ""]
  /\ view = SEARCH
  /\ user = Null
  /\ store \in InitialStores
  /\ userStore = Null
  /\ pending = {}
  /\ nextId = 1
  /\ now = ClockStart
  /\ phase = "mounting"
  /\ crashed = FALSE
  /\ triggers = 0
  /\ sessions = 1
  /\ closedWith = Null
  /\ last = "init"
  /\ audio = NoAudio
  /\ lookup = NoLookup

Next ==
  \/ MountEffects
  \/ Render
  \/ SubmitSearch
  \/ \E i \in 1..Len(rendered.state.history.v) : ViewDetails(i)
  \/ \E r \in Of("text"), d \in DictionaryResult : TextResolved(r, d)
  \/ \E r \in Of("text") : TextRejected(r)
  \/ \E r \in Of("image") : ImageResolved(r)
  \/ \E r \in Of("image") : ImageRejected(r)
  \/ handleRegenerateImage
  \/ \E type \in {"word", "sentence"} : PlayResultAudio(type)
  \/ \E i \in 1..Len(rendered.state.history.v) : PlayItemAudio(i)
  \/ PlayStoryAudio
  \/ \E r \in Of("speech"), decodable \in BOOLEAN : SpeechResolved(r, decodable)
  \/ \E r \in Of("speech") : SpeechRejected(r)
  \/ \E r \in Of("decode"), ok \in BOOLEAN : DecodeSettled(r, ok)
  \/ handleGenerateStory
  \/ \E r \in Of("story"), text \in {"", "monogatari"} : StoryResolved(r, text)
  \/ \E r \in Of("story") : StoryRejected(r)
  \/ handleImageUpload
  \/ \E r \in Of("read") : ReadLoaded(r)
  \/ \E r \in Of("read") : ReadFailed(r)
  \/ \E r \in Of("extract"), text \in {""} \cup Words : ExtractResolved(r, text)
  \/ \E r \in Of("extract") : ExtractRejected(r)
  \/ handleLogin
  \/ handleLogout
  \/ exportHistoryToCSV
  \/ \E q \in Typed : SetQuery(q)
  \/ \E v \in {SEARCH, WORDBOOK} : SetView(v)
  \/ Tick
  \/ Reload

Spec == Init /\ [][Next]_vars

\* the decoder on its own: any byte sequence, decoded once
AudioInit ==
  /\ state = InitialState
  /\ query = ""
  /\ rendered = [state |-> InitialState, query |-> ""]
  /\ view = SEARCH
  /\ user = Null
  /\ store = Null
  /\ userStore = Null
  /\ pending = {}
  /\ nextId = 1
  /\ now = ClockStart
  /\ phase = "mounting"
  /\ crashed = FALSE
  /\ triggers = 0
  /\ sessions = 1
  /\ closedWith = Null
  /\ last = "init"
  /\ \E data \in ByteSeqs : audio = [bytes |-> data, out |-> Null]
  /\ lookup = NoLookup

AudioNext == Decode

SpecAudio == AudioInit /\ [][AudioNext]_vars

(* ======================= properties of the history ===================== *)
NoRepeatedWord(items) ==
  \A i, j \in 1..Len(items) : items[i].word = items[j].word => i = j

\* C1: history insertion is idempotent per word: an array history never
\* holds two items with the same word, and a lookup that succeeds with a
\* word already present leaves the history as it was, whatever the other
\* fields of the later result are.
C1_InsertionIdempotent ==
  /\ [](IsArray(state.history) => NoRepeatedWord(state.history.v))
  /\ [][\A r \in Of("text"), d \in DictionaryResult :
          (TextResolved(r, d) /\ IsArray(state.history)
             /\ HasWord(state.history.v, d.word))
          => state'.history = state.history]_vars

\* a lookup has just succeeded with a word the history already held with
\* another definition: the first item is the one kept
C1_Witness ==
  /\ last = "textResolved"
  /\ IsArray(state.history) /\ Len(state.history.v) = 1
  /\ state.data # Null
  /\ state.history.v[1].word = state.data[1].word
  /\ state.history.v[1].definition # state.data[1].definition_cn

\* C2: the history is newest-first: a lookup that succeeds with a word not
\* yet present puts that word's item at the front, and the earlier items
\* follow it in their former order.
C2_NewestFirst ==
  [][\A r \in Of("text"), d \in DictionaryResult :
       (TextResolved(r, d) /\ IsArray(state.history)
          /\ ~HasWord(state.history.v, d.word))
       => /\ Len(state'.history.v) = Len(state.history.v) + 1
          /\ Head(state'.history.v) = NewItem(d, now)
          /\ Tail(state'.history.v) = state.history.v]_vars

\* word A was inserted, then the distinct word B: B first, A second
C2_Witness ==
  /\ last = "textResolved"
  /\ IsArray(state.history) /\ Len(state.history.v) = 2
  /\ state.history.v[1].word = state.data[1].word
  /\ state.history.v[2].word # state.data[1].word
  /\ state.history.v[2].timestamp < state.history.v[1].timestamp

(* ===================== properties of the persistence =================== *)
\* the stored string is not JSON, or is JSON that is not an array
Malformed(st) == st # Null /\ (~st[1].json \/ ~IsArray(st[1].doc))

\* C3 (as claimed): when the stored history is not JSON, or is JSON that
\* is not a sequence of items, the load at startup yields an empty history
\* (and so raises no error to the session).
C3_MalformedStorageTolerated ==
  [][(MountEffects /\ Malformed(store)) => state'.history = Arr(<<>>)]_vars

\* C4: persistence round trip: once every update is rendered and the save
\* effect has run, the store holds the history and parses back to it; and a
\* session started from the store of a session closed in that condition
\* loads a history equal to that session's, in content and order.
C4_RoundTrip ==
  /\ (Settled /\ IsArray(state.history))
       => /\ store = Some(JSONstringify(state.history))
          /\ JSONparse(store[1]) = [ok |-> TRUE, value |-> state.history]
  /\ (closedWith # Null /\ last = "mount") => state.history = closedWith[1]

\* a second session has loaded and saved back a history of two items, one
\* of them stamped with the two-digit clock value
C4_Witness ==
  /\ sessions = 2 /\ Settled /\ last = "render"
  /\ closedWith # Null /\ Len(closedWith[1].v) = 2
  /\ state.history = closedWith[1]
  /\ store = Some(JSONstringify(closedWith[1]))
  /\ \E i \in 1..2 : state.history.v[i].timestamp = ClockStart + 1

(* ======================= properties of the phases ====================== *)
\* the calls of handlePlayAudio(type) that have not reached their finally
AudioInFlight(type) ==
  {r \in pending : r.kind \in {"speech", "decode"} /\ r.term = type}

AudioTypes == {"word", "sentence"}

\* a step of any of the three places that call handlePlayAudio(type)
PlayTrigger(type) ==
  \/ PlayResultAudio(type)
  \/ type = "word" /\ \E i \in 1..Len(rendered.state.history.v) : PlayItemAudio(i)
  \/ type = "sentence" /\ PlayStoryAudio

\* C5: audio phase guard: at most one speech request per audio phase is in
\* flight, and a trigger of handlePlayAudio that arrives while its phase's
\* request is pending changes nothing.
C5_AudioGuard ==
  /\ [](\A type \in AudioTypes : Cardinality(AudioInFlight(type)) <= 1)
  /\ [][\A type \in AudioTypes :
          (PlayTrigger(type) /\ AudioInFlight(type) # {})
          => (pending' = pending /\ state' = state)]_vars

\* the wordbook's Play Audio button was pressed while the word request of
\* the result card was still pending, and nothing was issued
C5_Witness ==
  /\ last = "playIgnored"
  /\ Cardinality(AudioInFlight("word")) = 1
  /\ state.isLoadingAudioWord

\* C6: an image-generation request is issued only by the continuation of a
\* text lookup that succeeded, for the word of its result, or by the
\* regenerate action while a result is displayed, for the word of that
\* result; a text lookup that fails issues none.
C6_ImageAfterTextSuccess ==
  [][Of("image")' \ Of("image") # {} =>
       \/ /\ last' = "textResolved"
          /\ state'.data # Null
          /\ \A r \in Of("image")' \ Of("image") : r.term = state'.data[1].word
       \/ /\ last' = "regenerate"
          /\ rendered.state.data # Null
          /\ \A r \in Of("image")' \ Of("image") :
               r.term = rendered.state.data[1].word]_vars

\* a lookup failed while the image request of an earlier lookup is the
\* only one in flight
C6_Witness ==
  /\ last = "textRejected"
  /\ Of("text") = {}
  /\ Cardinality(Of("image")) = 1

\* the phase a call in flight belongs to
PhaseOf(r) ==
  CASE r.kind = "text" -> "text"
    [] r.kind = "image" -> "image"
    [] r.kind \in {"speech", "decode"} -> r.term
    [] r.kind = "story" -> "story"
    [] OTHER -> "ocr"

\* C7 (as claimed): at no reachable state are two requests of the same
\* phase in flight at once.
C7_OneRequestPerPhase ==
  \A r1, r2 \in pending : PhaseOf(r1) = PhaseOf(r2) => r1 = r2

(* ======================= properties of the error ======================= *)
SilentFailures ==
  {"imageRejected", "speechRejected", "decodeRejected"}

\* generateSpeech resolved but its payload could not be decoded
SpeechUndecodable ==
  \E r \in Of("speech") : SpeechResolved(r, FALSE)

\* C8 (as claimed): a failure of image generation, of story generation or
\* of speech generation or decoding never changes the error message.
C8_DegradedFailuresSilent ==
  [][(last' \in SilentFailures \cup {"storyRejected"} \/ SpeechUndecodable)
       => state'.error = state.error]_vars

\* C8 (amended): a failure of image generation or of speech generation or
\* decoding never changes the error message; a failure of story generation
\* sets it to "Failed to generate story.", as text-lookup and OCR failures
\* set their own messages.
C8_ImageAndAudioFailuresSilent ==
  [][/\ (last' \in SilentFailures \/ SpeechUndecodable)
          => state'.error = state.error
     /\ last' = "storyRejected"
          => state'.error = Some("Failed to generate story.")
     /\ last' \in {"textRejected", "extractRejected"}
          => (state'.error # Null /\ state'.error # Some("Failed to generate story."))
    ]_vars

\* an image request has just failed while an error message was shown, and
\* the message is still there
C8_Witness ==
  /\ last = "imageRejected"
  /\ state.error # Null
  /\ ~state.isLoadingImage

\* the operations that clear the error: the start of a lookup (from the
\* form, the wordbook or the OCR hand-off) and the start of an upload
ErrorClearing == {"submit", "viewDetails", "upload", "extractResolved"}

\* completions that succeed
Successes ==
  {"textResolved", "imageResolved", "played", "storyResolved",
   "extractResolved"}

SameSession == sessions' = sessions

\* C9 (as claimed): an error message stays set until the next action that
\* completes successfully, and right after a text lookup succeeds the
\* error is null.
C9_ErrorUntilNextSuccess ==
  [][/\ (SameSession /\ state.error # Null /\ state'.error = Null)
          => last' \in Successes
     /\ last' = "textResolved" => state'.error = Null]_vars

\* C9 (amended): an error message stays set until a lookup or an upload is
\* started (they clear it on entry, before any outcome is known); no
\* completion clears it, and a text lookup that succeeds leaves the error
\* as it was, so a message set by an overlapping failure stays shown with
\* the fresh result.
C9_ErrorUntilNextStart ==
  [][/\ (SameSession /\ state.error # Null /\ state'.error = Null)
          => last' \in ErrorClearing
     /\ last' \in (Successes \ {"extractResolved"})
          => state'.error = state.error]_vars

\* a lookup has just succeeded while a failure message is shown
C9_Witness ==
  /\ last = "textResolved"
  /\ state.data # Null
  /\ state.error # Null

(* ================== immutability of the history items ================== *)
\* C10: after the initial load, every operation of the session either
\* leaves the history unchanged or puts exactly one item in front of it;
\* no existing item is modified, reordered or deleted.
C10_HistoryOnlyPrepends ==
  [][(phase = "running" /\ SameSession)
       => \/ state'.history = state.history
          \/ /\ IsArray(state.history) /\ IsArray(state'.history)
             /\ Len(state'.history.v) = Len(state.history.v) + 1
             /\ Tail(state'.history.v) = state.history.v]_vars

\* a loaded item is still in place, behind a newer one, after operations
\* of several kinds (a lookup, a login or an audio, story or upload request)
C10_Witness ==
  /\ sessions = 1 /\ triggers = MaxTriggers
  /\ IsArray(state.history) /\ Len(state.history.v) = 2
  /\ state.history.v[2] = NewItem(SavedResult, ClockStart - 1)
  /\ last \in {"login", "logout", "export", "setView", "render"}

(* ==================== identifiers of the history items ================= *)
\* C11 (as claimed): history item identifiers are unique: no array history
\* holds two items with the same id, also when two lookups for distinct
\* words complete within the same clock millisecond.
C11_UniqueIds ==
  IsArray(state.history) =>
    \A i, j \in 1..Len(state.history.v) :
      state.history.v[i].id = state.history.v[j].id => i = j

(* ========================= the audio decoder =========================== *)
\* C12: decodeAudioData fails with a format error, and produces no audio
\* buffer, whenever its byte sequence has an odd number of bytes; for an
\* even count of N bytes it yields exactly N/2 samples.
C12_OddLengthFails ==
  audio.out # Null =>
    LET n == Len(audio.bytes)
        r == audio.out[1]
    IN IF n % 2 = 1
       THEN ~r.ok /\ r.error = "format" /\ "buffer" \notin DOMAIN r
       ELSE r.ok /\ Len(r.buffer.samples) = n \div 2

\* three bytes, one sample and a half, were handed to the decoder and it
\* failed
C12_Witness ==
  /\ audio.out # Null
  /\ Len(audio.bytes) = 3
  /\ ~audio.out[1].ok

(* ==================== properties of the loading flags ================== *)
LoadingFlags ==
  {"isLoadingText", "isLoadingImage", "isLoadingAudioWord",
   "isLoadingAudioSentence", "isGeneratingStory", "isAnalyzingImage"}

\* the failure handling of each phase, as a step
TextFails == \E r \in Of("text") : TextRejected(r)

ImageFails == \E r \in Of("image") : ImageRejected(r)

AudioFails(type) ==
  \/ \E r \in Of("speech") :
       r.term = type /\ (SpeechRejected(r) \/ SpeechResolved(r, FALSE))
  \/ \E r \in Of("decode") : r.term = type /\ DecodeSettled(r, FALSE)

StoryFails == \E r \in Of("story") : StoryRejected(r)

OcrFails == \E r \in Of("extract") : ExtractRejected(r) \/ ExtractResolved(r, "")

\* the step lowers the flags of `own` and leaves every other loading flag
\* as it was
ResetsOnly(own) ==
  \A f \in LoadingFlags :
    IF f \in own THEN ~state'[f] ELSE state'[f] = state[f]

\* the failure handlers other than the text lookup's
OtherHandlersResetOwnFlag ==
  /\ ImageFails => ResetsOnly({"isLoadingImage"})
  /\ \A type \in AudioTypes : AudioFails(type) => ResetsOnly({LoadingKey(type)})
  /\ StoryFails => ResetsOnly({"isGeneratingStory"})
  /\ OcrFails => ResetsOnly({"isAnalyzingImage"})

\* C13 (as claimed): each phase's failure handler resets only that phase's
\* own loading flag: a failed text lookup resets isLoadingText only, a
\* failed image, audio, story or OCR call its own flag only.
C13_FailureResetsOwnFlagOnly ==
  [][/\ TextFails => ResetsOnly({"isLoadingText"})
     /\ OtherHandlersResetOwnFlag]_vars

\* C13 (amended): a failed text lookup resets isLoadingText and also
\* isLoadingImage, which the start of the lookup had raised with it; a
\* failed image, audio, story or OCR call resets its own flag only.
C13_TextFailureResetsImageFlagToo ==
  [][/\ TextFails => ResetsOnly({"isLoadingText", "isLoadingImage"})
     /\ OtherHandlersResetOwnFlag]_vars

\* a text lookup has just failed while a speech request is pending: both
\* lookup flags are down, the audio flag is still up
C13_Witness ==
  /\ last = "textRejected"
  /\ ~state.isLoadingText /\ ~state.isLoadingImage
  /\ state.isLoadingAudioWord
  /\ Of("speech") # {}

(* ===================== properties of the image slot ==================== *)
\* C14 (as claimed): after an image-generation request fails the image
\* slot is empty: right after the failure is handled imageUrl is null and
\* isLoadingImage is false, also when an image request of an earlier
\* lookup resolved in between.
C14_ImageSlotEmptyAfterFailure ==
  last = "imageRejected" => (state.imageUrl = Null /\ ~state.isLoadingImage)

(* ======================= empty responses of the AI ===================== *)
\* C15 (as claimed): a call that returns an empty payload ends its phase
\* in the failed outcome and stores no result: an empty story text leaves
\* dailyStory unset and is handled as a story failure, an empty OCR text
\* is handled as an OCR failure and issues no lookup. (An empty definition,
\* missing image bytes and missing audio data make the service functions
\* throw: they are the rejections of those calls.)
C15_EmptyPayloadIsFailure ==
  [][/\ \A r \in Of("story") :
          StoryResolved(r, "")
          => /\ state'.dailyStory = Null
             /\ state'.error = Some("Failed to generate story.")
     /\ \A r \in Of("extract") :
          ExtractResolved(r, "")
          => /\ state'.error = Some("Could not read text from image.")
             /\ state'.data = state.data
             /\ Of("text")' = Of("text")]_vars

(* =========================== the OCR hand-off ========================== *)
\* the text lookups a step issues
NewLookups == Of("text")' \ Of("text")

\* C16: an OCR run whose text extraction fails or returns empty text ends
\* with the user-facing error set, isAnalyzingImage back to false and no
\* text lookup issued; an OCR run that returns non-empty text issues
\* exactly one text lookup, with that text.
C16_OcrOutcome ==
  [][\A r \in Of("extract") :
       /\ (ExtractRejected(r) \/ ExtractResolved(r, ""))
            => /\ state'.error = Some("Could not read text from image.")
               /\ ~state'.isAnalyzingImage
               /\ NewLookups = {}
               /\ Of("text")' = Of("text")
       /\ \A w \in Words :
            ExtractResolved(r, w)
            => /\ Cardinality(NewLookups) = 1
               /\ \A t \in NewLookups : t.term = w
               /\ ~state'.isAnalyzingImage]_vars

\* the text read from an image has just been handed to a lookup, the one
\* lookup in flight
C16_Witness ==
  /\ last = "extractResolved"
  /\ ~state.isAnalyzingImage /\ state.isLoadingText
  /\ Cardinality(Of("text")) = 1
  /\ \A t \in Of("text") : t.term = "inu"
  /\ query = "inu"

(* ==================== overlapping lookups and images =================== *)
\* C17 (as claimed): image/result consistency: whenever a result and an
\* image are both present and no image request is loading, the image was
\* generated for the word of the displayed result, also when lookups
\* overlap or an image request of an earlier lookup resolves after a later
\* lookup started.
C17_ImageMatchesResult ==
  (state.data # Null /\ state.imageUrl # Null /\ ~state.isLoadingImage)
    => state.imageUrl[1].of = state.data[1].word

\* C18 (as claimed): latest lookup wins: when text lookups overlap and the
\* response to the most recently issued one is displayed, the response to
\* an earlier lookup that arrives later, as the last of them, does not
\* replace it: with all of them completed, `data` is still the response to
\* the most recently issued lookup.
C18_LatestLookupWins ==
  [][\A r \in Of("text"), d \in DictionaryResult :
       (/\ TextResolved(r, d)
        /\ Of("text") = {r}
        /\ r.n < lookup.latest
        /\ state.data # Null /\ lookup.shown = lookup.latest)
       => state'.data = state.data]_vars

(* ===================== settling of the loading flags =================== *)
\* C19 (as claimed): loading flags always settle: with every external
\* call resolved or failed, every loading flag is back to false; whenever
\* no external call is pending (and the session has not crashed) all six
\* flags are false.
C19_FlagsSettle ==
  (pending = {} /\ ~crashed) => \A f \in LoadingFlags : ~state[f]

====
